---------------------------- MODULE Spec2Model ----------------------------
(* ClaudeAgent (src/agent_alz_assistant/agent.py): one chat() coroutine per  *)
(* turn, run by a single asyncio event loop.  Every action below is the code *)
(* a coroutine runs between two awaits, so it is atomic exactly as the event *)
(* loop makes it; the child process and the sink are the environment.        *)
(* The chat page of src/app.py (index, send_message) is modelled beside it,  *)
(* with agent.chat taken by its interface.                                   *)
EXTENDS Naturals, Integers, Sequences, FiniteSets, TLC

VARIABLES
    sessions,           \* self.sessions: the keys of the dict (every value is True)
    mcp_config_exists,  \* self.mcp_config_path.exists()
    fixture,            \* the harness driving the agent: how many calls, which inputs
    pc,                 \* pc[c]: where call c of chat() is suspended
    session_id,         \* chat() argument
    query,              \* chat() argument
    on_output,          \* chat() argument: TRUE when a sink is given, FALSE for None
    is_first_message,   \* local of chat()
    cmd,                \* local of chat(): the argument list
    emitted,            \* emitted[c][s]: all the bytes the process has written to stream s
    closed,             \* closed[c][s]: the process has closed its end of stream s
    exited,             \* the process has exited
    returncode,         \* process.returncode, as process.wait() reports it
    stdin,              \* the child's stdin pipe: bytes received, closed or not
    buf,                \* buf[c][s]: bytes written by the process and not yet read
    rd,                 \* rd[c][s]: position of read_stdout / read_stderr
    lines,              \* lines[c][s]: stdout_lines / stderr_lines
    sunk,               \* sunk[c]: the on_output invocations so far, in order
    outcome,            \* what chat() returned or raised
    spawns,             \* spawns[c]: create_subprocess_exec calls made by call c
    launch,             \* launch[c]: the cwd and env call c gave create_subprocess_exec
    environ,            \* os.environ of the server process
    self_env,           \* self.env
    user_input,         \* app.py: user_input[p] is the value of the input box of page p
    chat_container,     \* app.py: chat_container[p] is the chat area of page p, in order
    conversation_history, \* app.py: the module-level list conversation_history
    send,               \* app.py: send[n] is invocation n of send_message
    disable_auth,       \* app.py: DISABLE_AUTH
    password_hash,      \* app.py: PASSWORD_HASH
    authenticated,      \* app.py: storage.user["authenticated"] of each client
    shown,              \* app.py: the page each client's browser shows
    password_input,     \* app.py: the value of the password box of each client
    db_file,            \* kg_server.py: kg-alzheimers.duckdb: exists or not, what it holds
    tsv_files,          \* kg_server.py: which of the two KGX TSV files exist
    kg                  \* kg_server.py: the server process and its _init_db call

vars == <<sessions, mcp_config_exists, fixture, pc, session_id, query, on_output,
          is_first_message, cmd, emitted, closed, exited, returncode,
          stdin, buf, rd, lines, sunk, outcome, spawns, launch, environ, self_env,
          user_input, chat_container, conversation_history, send,
          disable_auth, password_hash, authenticated, shown, password_input,
          db_file, tsv_files, kg>>

hostVars == <<environ, self_env>>
authVars == <<disable_auth, password_hash, authenticated, shown, password_input>>
kgVars == <<db_file, tsv_files, kg>>
appVars == <<user_input, chat_container, conversation_history, send>>
\* all the state of the agent and of the chat page
AgentAndApp == <<sessions, mcp_config_exists, fixture, pc, session_id, query, on_output,
                 is_first_message, cmd, emitted, closed, exited, returncode, stdin, buf,
                 rd, lines, sunk, outcome, spawns, launch, hostVars, appVars>>

-----------------------------------------------------------------------------
(* Bounds *)

\* chat() calls issued in a run of the multi-call specification
NumCalls == 2
\* longest stdout / stderr output (in bytes) of the single-turn specification
MaxStdout == 3
MaxStderr == 2
\* send_message invocations in a run of the chat page specification
NumSends == 2
\* starts of the kg server in a run of its specification
MaxStarts == 2

Calls == 1..NumCalls
Keys == {"abc", "xyz"}
Queries == {"What is APOE4?", "And tau?"}
Streams == {"stdout", "stderr"}
NL == "\n"
Chars == {"a", NL}
ExitCodes == {0, 1}
McpConfigPath == "mcp_config.json"
NoValue == "none"
Sends == 1..NumSends
\* the pages served by index(), one per connected browser
Pages == {"page1", "page2"}
\* what a user may have typed: nothing, blanks, a question, a question in blanks
UserTexts == {<<>>, <<" ">>, <<"a">>, <<" ", "a", NL>>}
\* what agent.chat may return, and the messages of what it may raise
Responses == {"APOE4 is a risk allele."}
ChatErrors == {"unhashable type: 'list'", "Claude CLI failed: Unknown error"}
\* the browsers talking to the app, each with its own storage.user
Clients == {"alice", "bob"}
\* the two KGX files _init_db reads, and what it creates in the database, in order
TsvNames == {"nodes", "edges"}
DbItems == <<"nodes", "edges", "idx_nodes_id", "idx_edges_subject", "idx_edges_object">>
\* values of os.environ, and the project root chat() computes from __file__
Environs == {"PATH=/usr/bin", "PATH=/opt/bin"}
ProjectRoot == "project_root"
\* os.environ when ClaudeAgent() is constructed
EnvAtConstruction == "PATH=/usr/bin"
\* process.returncode before the process has been waited for (None)
NoCode == -1

SeqsUpTo(S, n) == UNION {[1..k -> S] : k \in 0..n}

-----------------------------------------------------------------------------
(* Pure functions *)

\* ''.join(list_of_lines)
RECURSIVE Join(_)
Join(ls) == IF ls = <<>> THEN <<>> ELSE Head(ls) \o Join(Tail(ls))

\* str.isspace() on the characters of the model
IsSpace(ch) == ch \in {NL, " "}

RECURSIVE LStrip(_)
LStrip(s) == IF s # <<>> /\ IsSpace(Head(s)) THEN LStrip(Tail(s)) ELSE s

RECURSIVE RStrip(_)
RStrip(s) ==
    IF s # <<>> /\ IsSpace(s[Len(s)]) THEN RStrip(SubSeq(s, 1, Len(s) - 1)) ELSE s

\* str.strip()
Strip(s) == RStrip(LStrip(s))

HasNL(b) == \E i \in 1..Len(b) : b[i] = NL
FirstNL(b) == CHOOSE i \in 1..Len(b) : b[i] = NL /\ \A j \in 1..(i - 1) : b[j] # NL

\* StreamReader.readline(): ready when a whole line is buffered or at end of stream
ReadlineReadyNeverAtEOF(b, eof) == HasNL(b)
ReadlineReadyAnyBytes(b, eof) == b # <<>> \/ eof
ReadlineReady(b, eof) == HasNL(b) \/ eof
\* its result: through the first newline, else (at end of stream) all that is left,
\* which is empty exactly when nothing is left
ReadlineResult(b) == IF HasNL(b) THEN SubSeq(b, 1, FirstNL(b)) ELSE b
ReadlineRest(b) == IF HasNL(b) THEN SubSeq(b, FirstNL(b) + 1, Len(b)) ELSE <<>>

\* the lines a byte sequence splits into, as a reader that reads it all sees them
RECURSIVE SplitLines(_)
SplitLines(b) ==
    IF b = <<>> THEN <<>> ELSE <<ReadlineResult(b)>> \o SplitLines(ReadlineRest(b))

\* lines 46-60: the argument list
CreateFlag == "--session-id"
ResumeFlag == "--resume"
SessionFlagAlwaysCreate(first) == CreateFlag
SessionFlag(first) == IF first THEN CreateFlag ELSE ResumeFlag
BuildCmd(first, sid, mcp) ==
    <<"claude", "--dangerously-skip-permissions">>
    \o <<SessionFlag(first), sid>>
    \o (IF mcp THEN <<"--mcp-config", McpConfigPath>> ELSE <<>>)

\* lines 110-112: the RuntimeError raised for a non-zero exit
UnknownError == <<"Unknown error">>
ErrorMsgNoPlaceholder(stderr_lines) == Join(stderr_lines)
ErrorMsg(stderr_lines) == IF stderr_lines # <<>> THEN Join(stderr_lines) ELSE UnknownError
\* lines 115-116
ResponseUnstripped(stdout_lines) == Join(stdout_lines)
Response(stdout_lines) == Strip(Join(stdout_lines))

-----------------------------------------------------------------------------
(* Initial state *)

NoOutcome == [kind |-> "none", value |-> <<>>]

NoLaunch == [cwd |-> NoValue, env |-> NoValue]
\* send_message before it is invoked: no query, no indicator, agent.chat not called
IdleSend == [pc |-> "idle", page |-> NoValue, query |-> <<>>, chat_args |-> <<>>]

\* no database file; the kg server not running, _init_db not called yet
NoDb == [exists |-> FALSE, items |-> {}]
KgStopped(starts) == [pc |-> "stopped", needs_import |-> FALSE, step |-> 0,
                      error |-> NoValue, starts |-> starts]
\* APP_PASSWORD_HASH unset: "".encode()
NoHash == <<>>

InitWith(fx) ==
    /\ sessions = {}
    /\ mcp_config_exists \in fx.mcp
    /\ fixture = fx
    /\ pc = [c \in Calls |-> "idle"]
    /\ session_id = [c \in Calls |-> NoValue]
    /\ query = [c \in Calls |-> NoValue]
    /\ on_output = [c \in Calls |-> FALSE]
    /\ is_first_message = [c \in Calls |-> FALSE]
    /\ cmd = [c \in Calls |-> <<>>]
    /\ emitted = [c \in Calls |-> [s \in Streams |-> <<>>]]
    /\ closed = [c \in Calls |-> [s \in Streams |-> FALSE]]
    /\ exited = [c \in Calls |-> FALSE]
    /\ returncode = [c \in Calls |-> NoCode]
    /\ stdin = [c \in Calls |-> [data |-> NoValue, closed |-> FALSE]]
    /\ buf = [c \in Calls |-> [s \in Streams |-> <<>>]]
    /\ rd = [c \in Calls |-> [s \in Streams |-> "idle"]]
    /\ lines = [c \in Calls |-> [s \in Streams |-> <<>>]]
    /\ sunk = [c \in Calls |-> <<>>]
    /\ outcome = [c \in Calls |-> NoOutcome]
    /\ spawns = [c \in Calls |-> 0]
    /\ launch = [c \in Calls |-> NoLaunch]
    /\ environ = EnvAtConstruction
    /\ self_env = environ
    /\ user_input = [p \in Pages |-> <<>>]
    /\ chat_container = [p \in Pages |-> <<>>]
    /\ conversation_history = <<>>
    /\ send = [n \in Sends |-> IdleSend]
    /\ disable_auth \in (IF "disable_auth" \in DOMAIN fx THEN fx.disable_auth ELSE {FALSE})
    /\ password_hash \in (IF "password_hash" \in DOMAIN fx THEN fx.password_hash ELSE {NoHash})
    /\ authenticated = [cl \in Clients |-> FALSE]
    /\ shown = [cl \in Clients |-> NoValue]
    /\ password_input = [cl \in Clients |-> ""]
    /\ db_file = NoDb
    /\ tsv_files = TsvNames
    /\ kg = KgStopped(0)

\* the line a process of the multi-call specification may write to stdout
AnswerLine == <<"a", NL>>

\* several chat() calls on one ClaudeAgent; each process writes AnswerLine or nothing
\* to stdout, nothing to stderr, and closes stderr only by exiting
Init ==
    InitWith([calls |-> NumCalls, keys |-> Keys, queries |-> {"What is APOE4?"},
              sinks |-> {TRUE}, mcp |-> {TRUE},
              chunks |-> [c \in Calls |-> [stdout |-> {AnswerLine}, stderr |-> {}]],
              closes |-> {"stdout"},
              limit |-> [stdout |-> Len(AnswerLine), stderr |-> 0]])
\* one chat() call; the process writes any bytes, one at a time, up to the bounds
InitTurn ==
    InitWith([calls |-> 1, keys |-> {"abc"}, queries |-> {"What is APOE4?"},
              sinks |-> BOOLEAN, mcp |-> {TRUE},
              chunks |-> [c \in Calls |-> [s \in Streams |-> {<<ch>> : ch \in Chars}]],
              closes |-> Streams,
              limit |-> [stdout |-> MaxStdout, stderr |-> MaxStderr]])

\* the one line the process of call c may write in the two-call specification
TaggedLine(c) == <<IF c = 1 THEN "a" ELSE "b", NL>>

\* two chat() calls for distinct keys; the process of each may write its own line to
\* stdout and to stderr
InitPair ==
    InitWith([calls |-> 2, keys |-> {"xyz"}, queries |-> Queries,
              sinks |-> {TRUE}, mcp |-> {TRUE},
              chunks |-> [c \in Calls |-> [s \in Streams |-> {TaggedLine(c)}]],
              closes |-> {"stdout"},
              limit |-> [stdout |-> Len(AnswerLine), stderr |-> Len(AnswerLine)]])

\* two chat() calls for distinct keys, each with or without a sink, whose processes
\* choose from the same behaviours
InitTwin ==
    InitWith([calls |-> 2, keys |-> {"xyz"}, queries |-> {"What is APOE4?"},
              sinks |-> BOOLEAN, mcp |-> {TRUE},
              chunks |-> [c \in Calls |-> [stdout |-> {<<" ", "a", NL>>},
                                           stderr |-> {AnswerLine}]],
              closes |-> {"stdout"},
              limit |-> [stdout |-> 3, stderr |-> Len(AnswerLine)]])

\* two chat() calls while the configuration file and the server's environment change
InitLaunch ==
    InitWith([calls |-> 2, keys |-> Keys, queries |-> {"What is APOE4?"},
              sinks |-> {TRUE}, mcp |-> {TRUE},
              chunks |-> [c \in Calls |-> [stdout |-> {AnswerLine}, stderr |-> {}]],
              closes |-> {"stdout"},
              limit |-> [stdout |-> Len(AnswerLine), stderr |-> 0]])

-----------------------------------------------------------------------------
(* chat(): lines 39-64, up to the await of create_subprocess_exec.  No await *)
(* separates the membership test from the store, so the step is atomic.      *)

\* line 40
IsFirstMessageUnchecked(sid) == TRUE
IsFirstMessage(sid) == sid \notin sessions

\* lines 41-42
ResolveWithoutStore(sid) == sessions
Resolve(sid) == IF IsFirstMessage(sid) THEN sessions \cup {sid} ELSE sessions

\* lines 63-71: the process gets env=self.env and cwd=str(project_root)
LaunchEnvCurrent == environ
LaunchEnv == self_env

Start(c, sid, q, sink) ==
    /\ pc[c] = "idle"
    /\ c <= fixture.calls
    /\ \A d \in 1..(c - 1) : pc[d] # "idle"
    /\ session_id' = [session_id EXCEPT ![c] = sid]
    /\ query' = [query EXCEPT ![c] = q]
    /\ on_output' = [on_output EXCEPT ![c] = sink]
    /\ is_first_message' = [is_first_message EXCEPT ![c] = IsFirstMessage(sid)]
    /\ sessions' = Resolve(sid)
    /\ cmd' = [cmd EXCEPT ![c] = BuildCmd(IsFirstMessage(sid), sid, mcp_config_exists)]
    /\ launch' = [launch EXCEPT ![c] = [cwd |-> ProjectRoot, env |-> LaunchEnv]]
    /\ pc' = [pc EXCEPT ![c] = "spawn"]
    /\ UNCHANGED <<authVars, kgVars, mcp_config_exists, fixture, spawns, hostVars, appVars, emitted, closed, exited, returncode, stdin,
                   buf, rd, lines, sunk, outcome>>

\* lines 64-71: create_subprocess_exec returns a running process
SpawnOk(c) ==
    /\ pc[c] = "spawn"
    /\ spawns' = [spawns EXCEPT ![c] = @ + 1]
    /\ pc' = [pc EXCEPT ![c] = "write"]
    /\ UNCHANGED <<authVars, kgVars, sessions, mcp_config_exists, fixture, launch, hostVars, appVars, session_id, query, on_output,
                   is_first_message, cmd, emitted, closed, exited, returncode, stdin,
                   buf, rd, lines, sunk, outcome>>

\* the exception of create_subprocess_exec is not caught: chat() ends by raising it
AfterSpawnErrorRetry == "spawn"
AfterSpawnError == "raised"

\* lines 64-71: create_subprocess_exec raises (the executable is not found)
SpawnFail(c) ==
    /\ pc[c] = "spawn"
    /\ spawns' = [spawns EXCEPT ![c] = @ + 1]
    /\ pc' = [pc EXCEPT ![c] = AfterSpawnError]
    /\ outcome' = [outcome EXCEPT ![c] = [kind |-> "spawn_error", value |-> <<>>]]
    /\ UNCHANGED <<authVars, kgVars, sessions, mcp_config_exists, fixture, launch, hostVars, appVars, session_id, query, on_output,
                   is_first_message, cmd, emitted, closed, exited, returncode, stdin, buf,
                   rd, lines, sunk>>

\* lines 74-75: the child's stdin after write(query.encode()) and close()
StdinLeftOpen(q) == [data |-> q, closed |-> FALSE]
StdinWrittenAndClosed(q) == [data |-> q, closed |-> TRUE]

\* lines 74-76: write the query, close stdin, await wait_closed
WriteStdin(c) ==
    /\ pc[c] = "write"
    /\ stdin' = [stdin EXCEPT ![c] = StdinWrittenAndClosed(query[c])]
    /\ pc' = [pc EXCEPT ![c] = "wait_closed"]
    /\ UNCHANGED <<authVars, kgVars, sessions, mcp_config_exists, fixture, spawns, launch, hostVars, appVars, session_id, query, on_output,
                   is_first_message, cmd, emitted, closed, exited, returncode, buf, rd,
                   lines, sunk, outcome>>

\* lines 79-104: wait_closed returns; the buffers are created and gather starts
\* read_stdout and read_stderr
StartPump(c) ==
    /\ pc[c] = "wait_closed"
    /\ rd' = [rd EXCEPT ![c] = [s \in Streams |-> "read"]]
    /\ pc' = [pc EXCEPT ![c] = "gather"]
    /\ UNCHANGED <<authVars, kgVars, sessions, mcp_config_exists, fixture, spawns, launch, hostVars, appVars, session_id, query, on_output,
                   is_first_message, cmd, emitted, closed, exited, returncode, stdin, buf,
                   lines, sunk, outcome>>

-----------------------------------------------------------------------------
(* The stream pump: read_stdout (lines 82-90) and read_stderr (lines 92-101) *)

\* stdout_lines.append(decoded) / stderr_lines.append(decoded)
Accumulate(ls, line) == Append(ls, line)

\* lines 79-80: stdout_lines and stderr_lines are locals of the call that made them
BufferOwnerShared(c) == 1
BufferOwner(c) == c

\* lines 89-90 and 100-101: on_output(decoded) is called with the line, for either stream
DeliverStdoutOnly(log, s, line) ==
    IF s = "stdout" THEN Append(log, [stream |-> s, line |-> line]) ELSE log
Deliver(log, s, line) == Append(log, [stream |-> s, line |-> line])

\* read_stdout and read_stderr are tasks of gather: they run while chat() awaits it,
\* and gather does not cancel the other task when one of them raises
LoopsRunningUnlessInSink(c) ==
    /\ pc[c] = "gather" \/ outcome[c].kind = "stream_error"
    /\ \A s \in Streams : rd[c][s] # "sink"
LoopsRunning(c) == pc[c] = "gather" \/ outcome[c].kind = "stream_error"

\* lines 89 and 100: "if on_output:"
SinkGivenAlways(c) == TRUE
SinkGiven(c) == on_output[c]

\* one iteration of the loop whose readline returns a line: append it and, with a
\* sink, call on_output(decoded) and await it
ReadLine(c, s) ==
    /\ LoopsRunning(c)
    /\ rd[c][s] = "read"
    /\ ReadlineReady(buf[c][s], closed[c][s])
    /\ ReadlineResult(buf[c][s]) # <<>>
    /\ LET line == ReadlineResult(buf[c][s]) IN
        /\ buf' = [buf EXCEPT ![c][s] = ReadlineRest(buf[c][s])]
        /\ lines' = [lines EXCEPT ![BufferOwner(c)][s] =
                        Accumulate(lines[BufferOwner(c)][s], line)]
        /\ IF SinkGiven(c)
           THEN /\ sunk' = [sunk EXCEPT ![c] = Deliver(sunk[c], s, line)]
                /\ rd' = [rd EXCEPT ![c][s] = "sink"]
           ELSE UNCHANGED <<sunk, rd>>
    /\ UNCHANGED <<authVars, kgVars, sessions, mcp_config_exists, fixture, spawns, launch, hostVars, appVars, pc, session_id, query, on_output,
                   is_first_message, cmd, emitted, closed, exited, returncode, stdin, outcome>>

\* the awaited on_output(decoded) returns: back to readline
SinkReturn(c, s) ==
    /\ LoopsRunning(c)
    /\ rd[c][s] = "sink"
    /\ rd' = [rd EXCEPT ![c][s] = "read"]
    /\ UNCHANGED <<authVars, kgVars, sessions, mcp_config_exists, fixture, spawns, launch, hostVars, appVars, pc, session_id, query, on_output,
                   is_first_message, cmd, emitted, closed, exited, returncode, stdin, buf,
                   lines, sunk, outcome>>

\* readline returns b"" at end of stream: break
ReadEOF(c, s) ==
    /\ LoopsRunning(c)
    /\ rd[c][s] = "read"
    /\ ReadlineReady(buf[c][s], closed[c][s])
    /\ ReadlineResult(buf[c][s]) = <<>>
    /\ rd' = [rd EXCEPT ![c][s] = "done"]
    /\ UNCHANGED <<authVars, kgVars, sessions, mcp_config_exists, fixture, spawns, launch, hostVars, appVars, pc, session_id, query, on_output,
                   is_first_message, cmd, emitted, closed, exited, returncode, stdin, buf,
                   lines, sunk, outcome>>

\* lines 84-90 and 94-101: decoding the line readline returned raises, or the awaited
\* on_output raises; nothing in the loop or around gather catches it, so gather raises
\* it into chat() at line 104, which ends by raising it
ReadLoopRaise(c, s) ==
    /\ LoopsRunning(c)
    /\ \/ /\ rd[c][s] = "sink"
          /\ UNCHANGED buf
       \/ /\ rd[c][s] = "read"
          /\ ReadlineReady(buf[c][s], closed[c][s])
          /\ ReadlineResult(buf[c][s]) # <<>>
          /\ buf' = [buf EXCEPT ![c][s] = ReadlineRest(buf[c][s])]
    /\ rd' = [rd EXCEPT ![c][s] = "failed"]
    /\ pc' = [pc EXCEPT ![c] = "raised"]
    /\ outcome' = [outcome EXCEPT ![c] =
            IF outcome[c] = NoOutcome THEN [kind |-> "stream_error", value |-> <<>>] ELSE @]
    /\ UNCHANGED <<authVars, kgVars, sessions, mcp_config_exists, fixture, spawns, launch, hostVars, appVars,
                   session_id, query, on_output, is_first_message, cmd, emitted, closed,
                   exited, returncode, stdin, lines, sunk>>

\* asyncio.gather(read_stdout(), read_stderr()) completes when both have returned
PumpDoneEveryCall(c) == \A d \in Calls : pc[d] # "idle" => \A s \in Streams : rd[d][s] = "done"
PumpDoneAny(c) == \E s \in Streams : rd[c][s] = "done"
PumpDone(c) == \A s \in Streams : rd[c][s] = "done"

\* line 104 -> line 107: gather returns, process.wait() is awaited
GatherDone(c) ==
    /\ pc[c] = "gather"
    /\ PumpDone(c)
    /\ pc' = [pc EXCEPT ![c] = "wait"]
    /\ UNCHANGED <<authVars, kgVars, sessions, mcp_config_exists, fixture, spawns, launch, hostVars, appVars, session_id, query, on_output,
                   is_first_message, cmd, emitted, closed, exited, returncode, stdin, buf,
                   rd, lines, sunk, outcome>>

\* lines 109-116 never touch self.sessions, whatever the exit status
SessionsAfterExitForgetFailed(c, code) ==
    IF code # 0 THEN sessions \ {session_id[c]} ELSE sessions
SessionsAfterExit(c, code) == sessions

\* line 110: the turn succeeded when process.returncode is 0
Succeeded(code) == code = 0

\* lines 107-116: process.wait() returns once the process has exited and sets its
\* exit status; raise or return
Finish(c, code) ==
    /\ pc[c] = "wait"
    /\ exited[c]
    /\ returncode' = [returncode EXCEPT ![c] = code]
    /\ IF ~Succeeded(code)
       THEN /\ pc' = [pc EXCEPT ![c] = "raised"]
            /\ outcome' = [outcome EXCEPT ![c] =
                   [kind |-> "RuntimeError", value |-> ErrorMsg(lines[BufferOwner(c)]["stderr"])]]
       ELSE /\ pc' = [pc EXCEPT ![c] = "returned"]
            /\ outcome' = [outcome EXCEPT ![c] =
                   [kind |-> "return", value |-> Response(lines[BufferOwner(c)]["stdout"])]]
    /\ sessions' = SessionsAfterExit(c, code)
    /\ UNCHANGED <<authVars, kgVars, mcp_config_exists, fixture, spawns, launch, hostVars, appVars, session_id, query, on_output,
                   is_first_message, cmd, emitted, closed, exited, stdin, buf, rd, lines,
                   sunk>>

-----------------------------------------------------------------------------
(* The child process (environment): it runs from the moment it is spawned,   *)
(* whatever chat() is doing; it writes bytes to either stream, may close a   *)
(* stream at any time, and closes both when it exits.                        *)

Spawned(c) == pc[c] \notin {"idle", "spawn"} /\ outcome[c].kind # "spawn_error"
Running(c) == Spawned(c) /\ ~exited[c]

ProcWrite(c, s, chunk) ==
    /\ Running(c)
    /\ ~closed[c][s]
    /\ Len(emitted[c][s]) + Len(chunk) <= fixture.limit[s]
    /\ emitted' = [emitted EXCEPT ![c][s] = @ \o chunk]
    /\ buf' = [buf EXCEPT ![c][s] = @ \o chunk]
    /\ UNCHANGED <<authVars, kgVars, sessions, mcp_config_exists, fixture, spawns, launch, hostVars, appVars, pc, session_id, query, on_output,
                   is_first_message, cmd, closed, exited, returncode, stdin, rd, lines,
                   sunk, outcome>>

ProcClose(c, s) ==
    /\ Running(c)
    /\ ~closed[c][s]
    /\ closed' = [closed EXCEPT ![c][s] = TRUE]
    /\ UNCHANGED <<authVars, kgVars, sessions, mcp_config_exists, fixture, spawns, launch, hostVars, appVars, pc, session_id, query, on_output,
                   is_first_message, cmd, emitted, exited, returncode, stdin, buf, rd,
                   lines, sunk, outcome>>

ProcExit(c) ==
    /\ Running(c)
    /\ exited' = [exited EXCEPT ![c] = TRUE]
    /\ closed' = [closed EXCEPT ![c] = [s \in Streams |-> TRUE]]
    /\ UNCHANGED <<authVars, kgVars, sessions, mcp_config_exists, fixture, spawns, launch, hostVars, appVars, pc, session_id, query, on_output,
                   is_first_message, cmd, emitted, returncode, stdin, buf, rd, lines,
                   sunk, outcome>>

-----------------------------------------------------------------------------
(* Specifications *)

\* the keys are interchangeable: the first call is the one that uses "abc"
CallKeys(c) == IF c = 1 THEN {"abc"} ELSE fixture.keys

Next ==
    \/ \E c \in Calls, q \in fixture.queries, sink \in fixture.sinks :
            \E sid \in CallKeys(c) : Start(c, sid, q, sink)
    \/ \E c \in Calls : SpawnOk(c)
    \/ \E c \in Calls : SpawnFail(c)
    \/ \E c \in Calls : WriteStdin(c)
    \/ \E c \in Calls : StartPump(c)
    \/ \E c \in Calls, s \in Streams : ReadLine(c, s)
    \/ \E c \in Calls, s \in Streams : SinkReturn(c, s)
    \/ \E c \in Calls, s \in Streams : ReadEOF(c, s)
    \/ \E c \in Calls : GatherDone(c)
    \/ \E c \in Calls, code \in ExitCodes : Finish(c, code)
    \/ \E c \in Calls, s \in Streams :
            \E chunk \in fixture.chunks[c][s] : ProcWrite(c, s, chunk)
    \/ \E c \in Calls : \E s \in fixture.closes : ProcClose(c, s)
    \/ \E c \in Calls : ProcExit(c)

Spec == Init /\ [][Next]_vars
SpecTurn == InitTurn /\ [][Next]_vars
SpecPair == InitPair /\ [][Next]_vars
SpecTwin == InitTwin /\ [][Next]_vars

-----------------------------------------------------------------------------
(* The chat page: index() and send_message of src/app.py.  agent.chat is     *)
(* taken by its interface here: the awaited call returns a text or raises.   *)

InitPage ==
    InitWith([calls |-> 0, keys |-> {}, queries |-> {}, sinks |-> {}, mcp |-> {TRUE},
              chunks |-> [c \in Calls |-> [s \in Streams |-> {}]],
              closes |-> {},
              limit |-> [stdout |-> 0, stderr |-> 0]])

\* the user edits the input box, or clicks a sample question
TypeInput(p, text) ==
    /\ text # user_input[p]
    /\ user_input' = [user_input EXCEPT ![p] = text]
    /\ UNCHANGED <<authVars, kgVars, sessions, mcp_config_exists, fixture, pc, session_id, query, on_output,
                   is_first_message, cmd, emitted, closed, exited, returncode, stdin, buf,
                   rd, lines, sunk, outcome, spawns, launch, hostVars, chat_container,
                   conversation_history, send>>

\* ui.chat_message(...) elements, and ChatMessage(role, content) objects; "by" is the
\* identity of the object: the send_message invocation that made it
Element(kind, text, n) == [kind |-> kind, text |-> text, by |-> n]
ChatMessage(role, content, n) == [role |-> role, content |-> content, by |-> n]

\* line 173: the positional arguments of agent.chat(query, conversation_history): the
\* second parameter of chat() is session_id, and what it gets is the history list
HistoryList == [type |-> "list", object |-> "conversation_history"]
ChatArgs(q) == [query |-> q, session_id |-> HistoryList]

\* lines 148-150: a query that is blank after strip() returns at once
SendBlank(n, p) ==
    /\ send[n].pc = "idle"
    /\ \A m \in 1..(n - 1) : send[m].pc # "idle"
    /\ Strip(user_input[p]) = <<>>
    /\ send' = [send EXCEPT ![n] = [@ EXCEPT !.pc = "ignored", !.page = p,
                                               !.query = user_input[p]]]
    /\ UNCHANGED <<authVars, kgVars, sessions, mcp_config_exists, fixture, pc, session_id, query, on_output,
                   is_first_message, cmd, emitted, closed, exited, returncode, stdin, buf,
                   rd, lines, sunk, outcome, spawns, launch, hostVars, user_input,
                   chat_container, conversation_history>>

\* lines 148-173: clear the input, show the user's message, append it to the history,
\* show the indicator, call agent.chat and await it
SendBegin(n, p) ==
    /\ send[n].pc = "idle"
    /\ \A m \in 1..(n - 1) : send[m].pc # "idle"
    /\ Strip(user_input[p]) # <<>>
    /\ LET q == user_input[p] IN
        /\ user_input' = [user_input EXCEPT ![p] = <<>>]
        /\ chat_container' = [chat_container EXCEPT ![p] =
                @ \o <<Element("user", q, n), Element("thinking", "Thinking...", n)>>]
        /\ conversation_history' = Append(conversation_history, ChatMessage("user", q, n))
        /\ send' = [send EXCEPT ![n] = [pc |-> "awaiting", page |-> p, query |-> q,
                                        chat_args |-> ChatArgs(q)]]
    /\ UNCHANGED <<authVars, kgVars, sessions, mcp_config_exists, fixture, pc, session_id, query, on_output,
                   is_first_message, cmd, emitted, closed, exited, returncode, stdin, buf,
                   rd, lines, sunk, outcome, spawns, launch, hostVars>>

\* chat_container.remove(thinking): the indicator this invocation made
RemoveNothing(container, n) == container
Remove(container, n) == SelectSeq(container, LAMBDA e : ~(e.kind = "thinking" /\ e.by = n))

\* lines 173-184: agent.chat returned: remove the indicator, show the response, append
\* it to the history
SendSuccess(n, response) ==
    /\ send[n].pc = "awaiting"
    /\ chat_container' = [chat_container EXCEPT ![send[n].page] =
            Append(Remove(@, n), Element("assistant", response, n))]
    /\ conversation_history' =
            Append(conversation_history, ChatMessage("assistant", response, n))
    /\ send' = [send EXCEPT ![n].pc = "answered"]
    /\ UNCHANGED <<authVars, kgVars, sessions, mcp_config_exists, fixture, pc, session_id, query, on_output,
                   is_first_message, cmd, emitted, closed, exited, returncode, stdin, buf,
                   rd, lines, sunk, outcome, spawns, launch, hostVars, user_input>>

\* lines 186-191: agent.chat raised an Exception: remove the indicator, show the error
SendFailure(n, e) ==
    /\ send[n].pc = "awaiting"
    /\ chat_container' = [chat_container EXCEPT ![send[n].page] =
            Append(Remove(@, n), Element("system", <<"Error: ", e>>, n))]
    /\ send' = [send EXCEPT ![n].pc = "failed"]
    /\ UNCHANGED <<authVars, kgVars, sessions, mcp_config_exists, fixture, pc, session_id, query, on_output,
                   is_first_message, cmd, emitted, closed, exited, returncode, stdin, buf,
                   rd, lines, sunk, outcome, spawns, launch, hostVars, user_input,
                   conversation_history>>

\* the first invocation is on page1: the pages are interchangeable
SendPages(n) == IF n = 1 THEN {"page1"} ELSE Pages

NextPage ==
    \/ \E p \in Pages, text \in UserTexts : TypeInput(p, text)
    \/ \E n \in Sends : \E p \in SendPages(n) : SendBlank(n, p)
    \/ \E n \in Sends : \E p \in SendPages(n) : SendBegin(n, p)
    \/ \E n \in Sends, response \in Responses : SendSuccess(n, response)
    \/ \E n \in Sends, e \in ChatErrors : SendFailure(n, e)

SpecPage == InitPage /\ [][NextPage]_vars

-----------------------------------------------------------------------------
(* Authentication: check_password, login/try_login and the guard of index()  *)
(* in src/app.py                                                             *)

\* what a client may type in the password box
Passwords == {"", "secret", "guess"}
\* bcrypt.hashpw of a password, and a value of APP_PASSWORD_HASH that is no bcrypt hash
Hash(pw) == <<"bcrypt", pw>>
BadHash == <<"not-a-hash">>

InitAuth ==
    InitWith([calls |-> 0, keys |-> {}, queries |-> {}, sinks |-> {}, mcp |-> {TRUE},
              chunks |-> [c \in Calls |-> [s \in Streams |-> {}]],
              closes |-> {},
              limit |-> [stdout |-> 0, stderr |-> 0],
              disable_auth |-> BOOLEAN,
              password_hash |-> {NoHash, Hash("secret"), BadHash}])

\* lines 76-84: no hash configured allows access; bcrypt.checkpw compares, and raises
\* on a value that is no hash, which is caught and answered False
CheckPasswordErrorAllows(pw) ==
    IF password_hash = NoHash THEN TRUE
    ELSE IF password_hash = BadHash THEN TRUE
    ELSE password_hash = Hash(pw)
CheckPassword(pw) ==
    IF password_hash = NoHash THEN TRUE
    ELSE IF password_hash = BadHash THEN FALSE
    ELSE password_hash = Hash(pw)

\* lines 105-112: a client requests "/": without authentication it is sent to /login,
\* whose page it then shows; otherwise the chat page is rendered
OpenIndex(cl) ==
    /\ IF ~disable_auth /\ ~authenticated[cl]
       THEN /\ shown' = [shown EXCEPT ![cl] = "login"]
            /\ password_input' = [password_input EXCEPT ![cl] = ""]
       ELSE /\ shown' = [shown EXCEPT ![cl] = "chat"]
            /\ UNCHANGED password_input
    /\ UNCHANGED <<AgentAndApp, kgVars, disable_auth, password_hash, authenticated>>

\* lines 87-102: a client requests "/login": the page is rendered for anyone
OpenLogin(cl) ==
    /\ shown' = [shown EXCEPT ![cl] = "login"]
    /\ password_input' = [password_input EXCEPT ![cl] = ""]
    /\ UNCHANGED <<AgentAndApp, kgVars, disable_auth, password_hash, authenticated>>

TypePassword(cl, pw) ==
    /\ shown[cl] = "login"
    /\ pw # password_input[cl]
    /\ password_input' = [password_input EXCEPT ![cl] = pw]
    /\ UNCHANGED <<AgentAndApp, kgVars, disable_auth, password_hash, authenticated, shown>>

\* lines 90-96: try_login: on a password that checks, set the flag and go to "/",
\* which index() then renders; otherwise notify and clear the box
TryLogin(cl) ==
    /\ shown[cl] = "login"
    /\ IF CheckPassword(password_input[cl])
       THEN /\ authenticated' = [authenticated EXCEPT ![cl] = TRUE]
            /\ shown' = [shown EXCEPT ![cl] = "chat"]
            /\ UNCHANGED password_input
       ELSE /\ password_input' = [password_input EXCEPT ![cl] = ""]
            /\ UNCHANGED <<authenticated, shown>>
    /\ UNCHANGED <<AgentAndApp, kgVars, disable_auth, password_hash>>

NextAuth ==
    \/ \E cl \in Clients : OpenIndex(cl)
    \/ \E cl \in Clients : OpenLogin(cl)
    \/ \E cl \in Clients, pw \in Passwords : TypePassword(cl, pw)
    \/ \E cl \in Clients : TryLogin(cl)

SpecAuth == InitAuth /\ [][NextAuth]_vars

-----------------------------------------------------------------------------
(* The kg server: main() and _init_db of mcp_server/kg_server.py.  Every      *)
(* conn.execute is a step; the server process may fail or be stopped between *)
(* any two of them.                                                          *)

InitKg == InitPage

\* line 51: needs_import = not db_file.exists()
NeedsImport == ~db_file.exists

\* lines 40-58: a start of the server calls _init_db: without a database file the two
\* TSV files must exist, or FileNotFoundError is raised; duckdb.connect opens the
\* database file and creates it when it does not exist
KgInitDb ==
    /\ kg.pc = "stopped"
    /\ kg.starts < MaxStarts
    /\ IF NeedsImport /\ tsv_files # TsvNames
       THEN /\ kg' = [pc |-> "failed", needs_import |-> NeedsImport, step |-> 0,
                      error |-> "FileNotFoundError", starts |-> kg.starts + 1]
            /\ UNCHANGED db_file
       ELSE /\ kg' = [pc |-> IF NeedsImport THEN "import" ELSE "ready",
                      needs_import |-> NeedsImport, step |-> 0,
                      error |-> NoValue, starts |-> kg.starts + 1]
            /\ db_file' = [db_file EXCEPT !.exists = TRUE]
    /\ UNCHANGED <<AgentAndApp, authVars, tsv_files>>

\* lines 60-108: the next of the two CREATE TABLE and three CREATE INDEX statements is
\* executed and committed; after the last one _db is set and _init_db returns
KgExecute ==
    /\ kg.pc = "import"
    /\ kg.step < Len(DbItems)
    /\ db_file' = [db_file EXCEPT !.items = @ \cup {DbItems[kg.step + 1]}]
    /\ kg' = [kg EXCEPT !.step = @ + 1,
                        !.pc = IF kg.step + 1 = Len(DbItems) THEN "ready" ELSE "import"]
    /\ UNCHANGED <<AgentAndApp, authVars, tsv_files>>

\* a statement raises (a TSV file that cannot be read, a full disk): nothing in _init_db
\* or main() catches it, and nothing removes the database file
KgExecuteFail ==
    /\ kg.pc = "import"
    /\ kg' = [kg EXCEPT !.pc = "failed", !.error = "duckdb.Error"]
    /\ UNCHANGED <<AgentAndApp, authVars, db_file, tsv_files>>

\* the server process ends: it is killed or interrupted during the import, it exits
\* after a failure, or it is shut down while serving
KgStop ==
    /\ kg.pc \in {"import", "ready", "failed"}
    /\ kg' = KgStopped(kg.starts)
    /\ UNCHANGED <<AgentAndApp, authVars, db_file, tsv_files>>

\* the operator adds or removes TSV files in KG_DATA_DIR
SetTsv(files) ==
    /\ files # tsv_files
    /\ tsv_files' = files
    /\ UNCHANGED <<AgentAndApp, authVars, db_file, kg>>

NextKg ==
    \/ KgInitDb
    \/ KgExecute
    \/ KgExecuteFail
    \/ KgStop
    \/ \E files \in SUBSET TsvNames : SetTsv(files)

SpecKg == InitKg /\ [][NextKg]_vars

-----------------------------------------------------------------------------
\* the host: mcp_config.json is created or deleted, os.environ is changed
SetMcpConfig(exists) ==
    /\ exists # mcp_config_exists
    /\ mcp_config_exists' = exists
    /\ UNCHANGED <<authVars, kgVars, sessions, fixture, pc, session_id, query, on_output, is_first_message,
                   cmd, emitted, closed, exited, returncode, stdin, buf, rd, lines, sunk,
                   outcome, spawns, launch, hostVars, appVars>>

SetEnviron(e) ==
    /\ e # environ
    /\ environ' = e
    /\ UNCHANGED <<authVars, kgVars, sessions, mcp_config_exists, fixture, pc, session_id, query, on_output,
                   is_first_message, cmd, emitted, closed, exited, returncode, stdin, buf,
                   rd, lines, sunk, outcome, spawns, launch, self_env, appVars>>

NextLaunch ==
    \/ Next
    \/ \E exists \in BOOLEAN : SetMcpConfig(exists)
    \/ \E e \in Environs : SetEnviron(e)
SpecLaunch == InitLaunch /\ [][NextLaunch]_vars

\* the same turn when a read loop may fail
NextFault == Next \/ \E c \in Calls, s \in Streams : ReadLoopRaise(c, s)
SpecFault == InitTurn /\ [][NextFault]_vars

\* the event loop runs every coroutine that is ready, so a step of chat() that stays
\* possible is taken; the caller issues its calls
Issue == \E c \in Calls, q \in fixture.queries, sink \in fixture.sinks :
            \E sid \in CallKeys(c) : Start(c, sid, q, sink)
ChatStep(c) ==
    \/ SpawnOk(c) \/ SpawnFail(c) \/ WriteStdin(c) \/ StartPump(c) \/ GatherDone(c)
    \/ \E s \in Streams : ReadLine(c, s) \/ SinkReturn(c, s) \/ ReadEOF(c, s)
    \/ \E code \in ExitCodes : Finish(c, code)

\* one turn run by the event loop, with a sink that returns; nothing is assumed of
\* the process
SpecLive ==
    /\ InitTurn /\ [][Next]_vars
    /\ WF_vars(Issue) /\ WF_vars(ChatStep(1))

\* two calls of which the first has a process that may stay silent and never exit,
\* while the process of the second finishes
SpecHang ==
    /\ InitPair /\ [][Next]_vars
    /\ WF_vars(Issue) /\ WF_vars(ChatStep(2)) /\ WF_vars(ProcExit(2))

-----------------------------------------------------------------------------
(* Session registry and command line: checked under Spec *)

Started(c) == pc[c] # "idle"
\* calls start in the order of their numbers: an earlier call is a smaller one
FirstFor(c) == ~\E d \in 1..(c - 1) : session_id[d] = session_id[c]
InFlight(c) == pc[c] \notin {"idle", "returned", "raised"}
FailedByExit(c) == pc[c] = "raised" /\ outcome[c].kind = "RuntimeError"
FailedBySpawn(c) == pc[c] = "raised" /\ outcome[c].kind = "spawn_error"

\* C1: the first chat() call for a session key is treated as new and every later call
\* for it as not new, whatever other calls run in between; the key of every call made
\* so far is in the sessions map, so a key is never removed and never created again.
C1_FirstCallIsNewLaterCallsResume ==
    \A c \in Calls :
        Started(c) =>
            /\ is_first_message[c] = FirstFor(c)
            /\ session_id[c] \in sessions

C1_Witness ==
    /\ Started(1) /\ Started(2)
    /\ session_id[1] = session_id[2]
    /\ is_first_message[1]
    /\ ~is_first_message[2]
    /\ pc[1] \in {"returned", "raised"}

FirstObservers(k) ==
    {c \in Calls : Started(c) /\ session_id[c] = k /\ is_first_message[c]}
CreateSpawners(k) ==
    {c \in Calls : Started(c) /\ session_id[c] = k /\ cmd[c][3] = CreateFlag}

\* C2: of the chat() calls made for one session key, concurrent or not, exactly one
\* observes is_first_message = TRUE and builds its command with the create flag; the
\* sessions map holds exactly the keys chat() was called with.
C2_ExactlyOneObservesFirst ==
    /\ \A k \in Keys :
        (\E c \in Calls : Started(c) /\ session_id[c] = k) =>
            /\ Cardinality(FirstObservers(k)) = 1
            /\ CreateSpawners(k) = FirstObservers(k)
    /\ sessions = {session_id[c] : c \in {d \in Calls : Started(d)}}

C2_Witness ==
    /\ InFlight(1) /\ InFlight(2)
    /\ pc[1] = "gather" /\ pc[2] = "gather"
    /\ session_id[1] = session_id[2]
    /\ Cardinality(FirstObservers(session_id[1])) = 1

SessionFlagPlaces(c) == {i \in 1..Len(cmd[c]) : cmd[c][i] \in {CreateFlag, ResumeFlag}}

\* C3: every command built by chat() holds exactly one session flag, followed at
\* once by the call's session key: the create flag when no earlier call used that
\* key, the resume flag otherwise.
C3_OneSessionFlagThenKey ==
    \A c \in Calls :
        Started(c) =>
            /\ Cardinality(SessionFlagPlaces(c)) = 1
            /\ \A i \in SessionFlagPlaces(c) :
                /\ i < Len(cmd[c])
                /\ cmd[c][i + 1] = session_id[c]
                /\ cmd[c][i] = (IF FirstFor(c) THEN CreateFlag ELSE ResumeFlag)

C3_Witness ==
    /\ Started(1) /\ Started(2)
    /\ session_id[1] = "abc" /\ session_id[2] = "abc"
    /\ pc[1] = "returned"
    /\ SubSeq(cmd[1], 3, 4) = <<CreateFlag, "abc">>
    /\ SubSeq(cmd[2], 3, 4) = <<ResumeFlag, "abc">>

\* C4: when the first turn for a key fails with a non-zero exit, a later chat() call
\* for that key builds its command with the resume flag and without the create flag.
C4_ResumeAfterFailedTurn ==
    \A c \in Calls : \A d \in Calls :
        (/\ c < d /\ Started(d)
         /\ session_id[c] = session_id[d]
         /\ FirstFor(c) /\ FailedByExit(c)) =>
            /\ \E i \in 1..(Len(cmd[d]) - 1) :
                cmd[d][i] = ResumeFlag /\ cmd[d][i + 1] = session_id[d]
            /\ \A i \in 1..Len(cmd[d]) : cmd[d][i] # CreateFlag
            /\ session_id[d] \in sessions

C4_Witness ==
    /\ FailedByExit(1)
    /\ pc[2] = "returned"
    /\ session_id[1] = session_id[2]
    /\ cmd[2][3] = ResumeFlag

NeverLaunched(k) == ~\E c \in Calls : session_id[c] = k /\ Spawned(c)

\* C5: a key whose first turn failed to spawn its process is not recorded as created,
\* and the next turn for it still uses the create flag.
C5_CreatedOnlyAfterLaunch ==
    /\ \A c \in Calls :
        (FailedBySpawn(c) /\ NeverLaunched(session_id[c])) => session_id[c] \notin sessions
    /\ \A c \in Calls : \A d \in Calls :
        (/\ c < d /\ Started(d) /\ session_id[c] = session_id[d]
         /\ \A e \in 1..(d - 1) : session_id[e] = session_id[d] => FailedBySpawn(e)) =>
            cmd[d][3] = CreateFlag

-----------------------------------------------------------------------------
(* One turn: the stream pump and the result, checked under SpecTurn *)

IsPrefix(a, b) == Len(a) <= Len(b) /\ SubSeq(b, 1, Len(a)) = a
\* the lines on_output was invoked with for stream s, in invocation order
SunkEntries(c, s) == SelectSeq(sunk[c], LAMBDA e : e.stream = s)
SunkLines(c, s) == [i \in 1..Len(SunkEntries(c, s)) |-> SunkEntries(c, s)[i].line]
\* process.wait() has returned and the exit status has been looked at
StatusEvaluated(c) == outcome[c].kind \in {"return", "RuntimeError"}

\* C6: with a sink, the invocations for one stream are at every moment the first
\* lines that the process wrote to that stream, each once and in emission order, and
\* are all of its lines once that stream's read loop has ended.
C6_SinkGetsEveryLineOnceInOrder ==
    \A c \in Calls : \A s \in Streams :
        on_output[c] =>
            /\ IsPrefix(SunkLines(c, s), SplitLines(emitted[c][s]))
            /\ rd[c][s] = "done" => SunkLines(c, s) = SplitLines(emitted[c][s])
            /\ PumpDone(c) =>
                Len(sunk[c]) = Len(SplitLines(emitted[c]["stdout"]))
                               + Len(SplitLines(emitted[c]["stderr"]))

C6_Witness ==
    /\ pc[1] = "returned"
    /\ on_output[1]
    /\ Len(SplitLines(emitted[1]["stdout"])) = 3
    /\ Len(SplitLines(emitted[1]["stderr"])) = 2
    /\ Len(sunk[1]) = 5

\* C7: a turn whose process exits with status 0 returns, and returns the bytes the
\* process wrote to stdout, in order, stripped of leading and trailing whitespace;
\* nothing of stderr is in it.
C7_SuccessReturnsStrippedStdout ==
    \A c \in Calls :
        (StatusEvaluated(c) /\ returncode[c] = 0) =>
            /\ pc[c] = "returned"
            /\ outcome[c] = [kind |-> "return", value |-> Strip(emitted[c]["stdout"])]

C7_Witness ==
    /\ pc[1] = "returned"
    /\ emitted[1]["stdout"] = <<NL, "a", NL>>
    /\ emitted[1]["stderr"] = <<"a", NL>>
    /\ outcome[1].value = <<"a">>

\* C8: a turn whose process exits with a non-zero status raises, and the detail of
\* the failure is the bytes the process wrote to stderr, in order, or the placeholder
\* "Unknown error" when it wrote none.
C8_FailureCarriesStderr ==
    \A c \in Calls :
        (StatusEvaluated(c) /\ returncode[c] # 0) =>
            /\ pc[c] = "raised"
            /\ outcome[c].kind = "RuntimeError"
            /\ outcome[c].value =
                (IF emitted[c]["stderr"] = <<>> THEN UnknownError ELSE emitted[c]["stderr"])

C8_Witness ==
    /\ FailedByExit(1)
    /\ returncode[1] = 1
    /\ emitted[1]["stderr"] = <<"a", NL>>
    /\ emitted[1]["stdout"] # <<>>
    /\ outcome[1].value = <<"a", NL>>

\* C9: chat() is at the exit wait, the status check or the return only when both
\* streams are closed and both read loops have read them to the end.
C9_PumpJoinsBothLoops ==
    \A c \in Calls :
        (pc[c] \in {"wait", "returned"} \/ FailedByExit(c)) =>
            \A s \in Streams : closed[c][s] /\ buf[c][s] = <<>> /\ rd[c][s] = "done"

C9_Witness ==
    /\ pc[1] = "gather"
    /\ rd[1]["stdout"] = "done"
    /\ ~closed[1]["stderr"]
    /\ lines[1]["stderr"] # <<>>

\* C10: a line is read from stdout or stderr only after the query was written to
\* stdin and stdin closed, and the exit status is evaluated only after the process
\* has exited and every byte of both streams has been read.
C10_WriteThenDrainThenStatus ==
    \A c \in Calls :
        /\ (\E s \in Streams : rd[c][s] # "idle" \/ lines[c][s] # <<>>) =>
            stdin[c] = [data |-> query[c], closed |-> TRUE]
        /\ StatusEvaluated(c) =>
            /\ exited[c]
            /\ \A s \in Streams : Join(lines[c][s]) = emitted[c][s]

C10_Witness ==
    /\ pc[1] = "returned"
    /\ stdin[1] = [data |-> "What is APOE4?", closed |-> TRUE]
    /\ lines[1]["stdout"] # <<>>
    /\ lines[1]["stderr"] # <<>>

-----------------------------------------------------------------------------
(* Concurrent turns: checked under SpecPair *)

\* everything one chat() call owns: its arguments and locals, its process and pipes,
\* its buffers and the invocations of its sink
CallState(c) ==
    <<pc[c], session_id[c], query[c], on_output[c], is_first_message[c], cmd[c],
      emitted[c], closed[c], exited[c], returncode[c], stdin[c], buf[c], rd[c],
      lines[c], sunk[c], outcome[c]>>

LinesOf(c) == UNION {{SplitLines(emitted[c][s])[i] : i \in 1..Len(SplitLines(emitted[c][s]))} :
                        s \in Streams}
Concurrent(c, d) == c # d /\ InFlight(c) /\ InFlight(d) /\ session_id[c] # session_id[d]

C11_Isolated ==
    \A c \in Calls : \A s \in Streams :
        /\ IsPrefix(lines[c][s], SplitLines(emitted[c][s]))
        /\ IsPrefix(SunkLines(c, s), SplitLines(emitted[c][s]))
        /\ \A d \in Calls \ {c} :
            /\ \A i \in 1..Len(lines[c][s]) : lines[c][s][i] \notin LinesOf(d)
            /\ \A i \in 1..Len(sunk[c]) : sunk[c][i].line \notin LinesOf(d)
        /\ stdin[c].data \in {NoValue, query[c]}

C11_OneCallPerStep ==
    \A c \in Calls : \A d \in Calls \ {c} :
        ~(CallState(c)' # CallState(c) /\ CallState(d)' # CallState(d))

\* C11: two chat() calls running concurrently for distinct keys are isolated: the
\* buffers of a call and the invocations of its sink hold only lines its own process
\* wrote, never a line of the other call's process, its process receives only its own
\* query, and no step changes the state of both calls (the sessions map is all they
\* share).
C11_ConcurrentCallsIsolated == []C11_Isolated /\ [][C11_OneCallPerStep]_vars

C11_Witness ==
    /\ Concurrent(1, 2)
    /\ pc[1] = "gather" /\ pc[2] = "gather"
    /\ \A c \in {1, 2} : \A s \in Streams : lines[c][s] = <<TaggedLine(c)>>
    /\ \A c \in {1, 2} : Len(sunk[c]) = 2

Hung(c) ==
    /\ pc[c] = "gather" /\ ~exited[c]
    /\ \A s \in Streams : emitted[c][s] = <<>> /\ ~closed[c][s]

\* C12: a turn for one key does not block a turn for another key: whatever the
\* process of call 1 does, also when it never writes and never exits, the concurrently
\* issued call 2 for another key, whose process exits, runs through all its steps and
\* finishes.
C12_OtherKeyTurnFinishes == <>(pc[2] \in {"returned", "raised"})

C12_Witness ==
    /\ Hung(1)
    /\ session_id[1] # session_id[2]
    /\ pc[2] = "returned"
    /\ outcome[2].value = Strip(TaggedLine(2))

-----------------------------------------------------------------------------
(* One process per turn, one outcome per turn *)

\* C13: every chat() call makes exactly one create_subprocess_exec call, for a process
\* of its own; when the spawn raises or the process exits non-zero, chat() spawns
\* nothing more, does not retry, and ends by raising the failure.
C13_OneSpawnNoRetry ==
    \A c \in Calls :
        /\ spawns[c] <= 1
        /\ pc[c] \notin {"idle", "spawn"} => spawns[c] = 1
        /\ outcome[c].kind = "spawn_error" => pc[c] = "raised" /\ ~Spawned(c)
        /\ (StatusEvaluated(c) /\ returncode[c] # 0) => FailedByExit(c)

C13_Witness ==
    /\ FailedByExit(1) /\ spawns[1] = 1
    /\ FailedBySpawn(2) /\ spawns[2] = 1

FailedInPump(c) == outcome[c].kind = "stream_error"

\* C14: when a read loop fails in mid-stream (readline raises, or on_output raises while
\* a line is delivered), chat() ends by raising the failure, and by then the child
\* process has exited and neither read loop is still running.
C14_PumpFailureReapsChild ==
    \A c \in Calls :
        FailedInPump(c) =>
            /\ pc[c] = "raised"
            /\ exited[c]
            /\ \A s \in Streams : rd[c][s] \in {"done", "failed"}

Failures == {"spawn_error", "stream_error", "RuntimeError"}

C15_OutcomeMatchesExit ==
    \A c \in Calls :
        /\ pc[c] = "returned" <=> outcome[c].kind = "return"
        /\ pc[c] = "raised" <=> outcome[c].kind \in Failures
        /\ outcome[c].kind = "return" =>
            /\ exited[c] /\ returncode[c] = 0
            /\ outcome[c].value = Strip(emitted[c]["stdout"])
        /\ outcome[c].kind = "RuntimeError" =>
            /\ exited[c] /\ returncode[c] # 0
            /\ outcome[c].value = ErrorMsg(lines[c]["stderr"])
        /\ outcome[c].kind \in Failures \ {"RuntimeError"} => outcome[c].value = <<>>
        /\ (outcome[c] # NoOutcome /\ Spawned(c)) => exited[c]

C15_OutcomeIsFinal ==
    \A c \in Calls : outcome[c] # NoOutcome => outcome'[c] = outcome[c] /\ pc'[c] = pc[c]

\* C15: a turn has exactly one outcome, the complete text or a failure, set once and
\* never changed: a return happens only after the process has exited with status 0 and
\* carries all of its stdout, stripped; a non-zero exit raises, and what is raised
\* carries stderr (or the placeholder), never the stdout text accumulated; a failure
\* of the spawn or of the pump carries no text; and a turn whose process was spawned
\* has no outcome before that process has exited.
C15_ExactlyOneOutcome == []C15_OutcomeMatchesExit /\ [][C15_OutcomeIsFinal]_vars

-----------------------------------------------------------------------------
(* The command line and the launch: checked under SpecLaunch *)

McpFlag == "--mcp-config"
HasMcpConfig(cm) ==
    \E i \in 1..(Len(cm) - 1) : cm[i] = McpFlag /\ cm[i + 1] = McpConfigPath
NoMcpConfig(cm) == \A i \in 1..Len(cm) : cm[i] \notin {McpFlag, McpConfigPath}

C16_Launch ==
    \A c \in Calls :
        Started(c) =>
            /\ cmd[c][1] = "claude"
            /\ cmd[c][2] = "--dangerously-skip-permissions"
            /\ launch[c] = [cwd |-> ProjectRoot, env |-> EnvAtConstruction]

C16_McpAtBuild ==
    \A c \in Calls :
        (pc[c] = "idle" /\ pc'[c] # "idle") =>
            IF mcp_config_exists THEN HasMcpConfig(cmd'[c]) ELSE NoMcpConfig(cmd'[c])

\* C16: every command chat() builds starts with claude --dangerously-skip-permissions;
\* it holds --mcp-config followed by the configuration path exactly when the file
\* exists as the command is built, whatever happens to the file afterwards; and the
\* process is launched in the project root with the environment copied when the agent
\* was constructed, whatever os.environ has become since.
C16_CommandAndLaunch == []C16_Launch /\ [][C16_McpAtBuild]_vars

C16_Witness ==
    /\ Started(1) /\ Started(2)
    /\ HasMcpConfig(cmd[1]) /\ NoMcpConfig(cmd[2])
    /\ mcp_config_exists
    /\ environ # EnvAtConstruction
    /\ launch[2].env = EnvAtConstruction

-----------------------------------------------------------------------------
(* What the sink is given, and when: checked under SpecTurn *)

EndsWithNL(line) == line # <<>> /\ line[Len(line)] = NL
OneLine(line) == line # <<>> /\ \A j \in 1..(Len(line) - 1) : line[j] # NL

\* C17 as stated: every on_output argument is one whole line and ends with a newline,
\* also when the process closes a stream after bytes with no newline after them.
C17_SinkLinesNewlineTerminated ==
    \A c \in Calls : \A i \in 1..Len(sunk[c]) :
        OneLine(sunk[c][i].line) /\ EndsWithNL(sunk[c][i].line)

\* C17: the sink is invoked once per line and never with part of a line or with more
\* than one: its arguments for a stream are, in order, the lines the process wrote to
\* that stream; each ends with a newline, except that bytes the process left without
\* a newline when the stream ended are delivered as they are, as the last invocation
\* for that stream.
C17_SinkGetsWholeLines ==
    \A c \in Calls : \A s \in Streams :
        on_output[c] =>
            LET sl == SunkLines(c, s) IN
            /\ IsPrefix(sl, SplitLines(emitted[c][s]))
            /\ \A i \in 1..Len(sl) :
                /\ OneLine(sl[i])
                /\ ~EndsWithNL(sl[i]) =>
                    /\ i = Len(sl)
                    /\ closed[c][s] /\ buf[c][s] = <<>>
                    /\ Join(sl) = emitted[c][s]

C17_Witness ==
    /\ on_output[1]
    /\ SunkLines(1, "stdout") = <<<<"a", NL>>, <<"a">>>>
    /\ closed[1]["stdout"]
    /\ rd[1]["stdout"] = "done"

\* C18: while the sink handles a line of one stream and does not return, the read loop
\* of that stream reads nothing more, and the read loop of the other stream goes on: it
\* can take the next line or the end of its stream as soon as readline has one, and its
\* own sink invocation can return; the pump holds no line it has read and not handed to
\* the sink, so at most the one line being handled per stream.
C18_SlowSinkStallsOneLoop ==
    \A c \in Calls : \A s \in Streams :
        /\ on_output[c] => Len(lines[c][s]) = Len(SunkLines(c, s))
        /\ (pc[c] = "gather" /\ rd[c][s] = "sink") =>
            /\ ~ENABLED (ReadLine(c, s) \/ ReadEOF(c, s))
            /\ \A t \in Streams \ {s} :
                /\ rd[c][t] # "idle"
                /\ (rd[c][t] = "read" /\ ReadlineReady(buf[c][t], closed[c][t])) =>
                        ENABLED (ReadLine(c, t) \/ ReadEOF(c, t))
                /\ rd[c][t] = "sink" => ENABLED SinkReturn(c, t)

C18_Witness ==
    /\ pc[1] = "gather"
    /\ rd[1]["stdout"] = "sink"
    /\ buf[1]["stdout"] # <<>>
    /\ sunk[1] = <<[stream |-> "stdout", line |-> <<"a", NL>>],
                   [stream |-> "stderr", line |-> <<"a", NL>>]>>
    /\ rd[1]["stderr"] = "done"

-----------------------------------------------------------------------------
(* The chat page: checked under SpecPage *)

\* send_message invocation n has called agent.chat
Called(n) == send[n].pc \in {"awaiting", "answered", "failed"}
Finished(n) == send[n].pc \in {"answered", "failed"}

\* C19: every turn the chat page issues carries the user's text and, as session
\* identifier, the session key of its conversation: a string key, the same for the
\* turns of one page and different for turns of different pages.
C19_TurnCarriesSessionKey ==
    \A n \in Sends :
        Called(n) =>
            /\ send[n].chat_args.query = send[n].query
            /\ send[n].chat_args.session_id.type = "str"
            /\ \A m \in Sends \ {n} :
                Called(m) =>
                    (send[m].chat_args.session_id = send[n].chat_args.session_id
                        <=> send[m].page = send[n].page)

ElementsBy(n, kinds) ==
    SelectSeq(chat_container[send[n].page], LAMBDA e : e.by = n /\ e.kind \in kinds)
EntriesBy(n, role) ==
    {i \in 1..Len(conversation_history) :
        conversation_history[i].by = n /\ conversation_history[i].role = role}

C20_Handled ==
    \A n \in Sends :
        /\ Called(n) =>
            /\ Strip(send[n].query) # <<>>
            /\ Cardinality(EntriesBy(n, "user")) = 1
            /\ Len(ElementsBy(n, {"user"})) = 1
        /\ send[n].pc = "awaiting" =>
            /\ Len(ElementsBy(n, {"thinking"})) = 1
            /\ ElementsBy(n, {"assistant", "system"}) = <<>>
            /\ EntriesBy(n, "assistant") = {}
        /\ Finished(n) =>
            /\ ElementsBy(n, {"thinking"}) = <<>>
            /\ Len(ElementsBy(n, {"assistant", "system"})) = 1
        /\ send[n].pc = "answered" =>
            /\ Len(ElementsBy(n, {"assistant"})) = 1
            /\ Cardinality(EntriesBy(n, "assistant")) = 1
            /\ \A i \in EntriesBy(n, "assistant") : \A j \in EntriesBy(n, "user") : j < i
        /\ send[n].pc = "failed" =>
            /\ Len(ElementsBy(n, {"system"})) = 1
            /\ ElementsBy(n, {"system"})[1].text[1] = "Error: "
            /\ EntriesBy(n, "assistant") = {}
        /\ send[n].pc = "ignored" =>
            /\ Strip(send[n].query) = <<>>
            /\ \A p \in Pages : \A i \in 1..Len(chat_container[p]) : chat_container[p][i].by # n
            /\ \A i \in 1..Len(conversation_history) : conversation_history[i].by # n

C20_BlankChangesNothing ==
    \A n \in Sends :
        (send[n].pc = "idle" /\ send'[n].pc = "ignored") =>
            UNCHANGED <<user_input, chat_container, conversation_history>>

\* C20: a send_message invocation with a non-blank query ends, whether agent.chat
\* returned or raised, with its "Thinking..." indicator removed and exactly one message
\* added after the user's: the assistant's on a return, a system message starting with
\* "Error: " on an exception; the history gets the assistant entry only on a return,
\* after the user entry of the same invocation.  An invocation with a blank or
\* whitespace-only query changes neither the input, the chat area nor the history.
C20_EveryOutcomeHandled == []C20_Handled /\ [][C20_BlankChangesNothing]_vars

C20_Witness ==
    /\ send[1].pc = "failed" /\ send[2].pc = "answered"
    /\ send[1].page = send[2].page
    /\ Len(conversation_history) = 3
    /\ conversation_history[3].role = "assistant"
    /\ Len(chat_container[send[1].page]) = 4

-----------------------------------------------------------------------------
(* Termination: checked under SpecLive *)

Done(c) == pc[c] \in {"returned", "raised"}

C21_StreamingUntilClosed ==
    \A c \in Calls :
        (pc[c] = "gather" /\ \E s \in Streams : ~closed'[c][s]) => pc'[c] = "gather"

\* C21: when the process has exited, which closes its stdout and stderr, and every
\* sink invocation returns, chat() eventually finishes by returning or raising; and a
\* step never takes chat() out of its wait for the two read loops while the process
\* has one of its streams open, so a process that never closes a stream keeps the
\* turn streaming forever.
C21_FinishesIffStreamsClose ==
    /\ exited[1] ~> Done(1)
    /\ [][C21_StreamingUntilClosed]_vars

C21_Witness ==
    /\ exited[1] /\ Done(1) /\ on_output[1]
    /\ outcome[1].kind \in {"return", "RuntimeError"}
    /\ Len(sunk[1]) = 3

-----------------------------------------------------------------------------
(* The sink and the outcome: checked under SpecTwin *)

\* what the process of call c did, as far as chat() can tell: whether it was spawned,
\* all it wrote to either stream, and its exit status
ProcessBehaviour(c) == <<Spawned(c), emitted[c], returncode[c]>>

\* C22: of two finished chat() calls whose processes behaved the same, one with a sink
\* that returns and one with on_output = None, the one without a sink has made no sink
\* invocation, and both have the same outcome: the same text returned or the same
\* failure raised.
C22_OutcomeIndependentOfSink ==
    \A c \in Calls : \A d \in Calls :
        /\ (Started(d) /\ ~on_output[d]) => sunk[d] = <<>>
        /\ (/\ Done(c) /\ Done(d)
            /\ on_output[c] /\ ~on_output[d]
            /\ ProcessBehaviour(c) = ProcessBehaviour(d)) =>
                outcome[c] = outcome[d]

C22_Witness ==
    /\ on_output[1] /\ ~on_output[2]
    /\ pc[1] = "returned" /\ pc[2] = "returned"
    /\ ProcessBehaviour(1) = ProcessBehaviour(2)
    /\ outcome[2].value = <<"a">>
    /\ Len(sunk[1]) = 2 /\ sunk[2] = <<>>

-----------------------------------------------------------------------------
(* The knowledge graph database: checked under SpecKg *)

Imported == db_file.exists /\ db_file.items = {DbItems[i] : i \in 1..Len(DbItems)}

C23_SkipMeansComplete ==
    /\ (kg.pc \in {"import", "ready"} /\ ~kg.needs_import) => Imported
    /\ (kg.pc = "failed" /\ kg.error = "FileNotFoundError") => ~db_file.exists

C23_ImportIffNoFile ==
    (kg.pc = "stopped" /\ kg'.pc # "stopped") => (kg'.needs_import <=> ~db_file.exists)

\* C23: over any sequence of server starts, failed and interrupted ones included,
\* _init_db imports exactly when the database file does not exist; whenever it skips
\* the import, the database holds the nodes and edges tables and their three indexes;
\* and after a start that failed for a missing TSV file there is no database file.
C23_ImportOnceAndComplete == []C23_SkipMeansComplete /\ [][C23_ImportIffNoFile]_vars

-----------------------------------------------------------------------------
(* Authentication: checked under SpecAuth *)

ChatOnlyIfAuthenticated ==
    \A cl \in Clients : (~disable_auth /\ shown[cl] = "chat") => authenticated[cl]

FlagChanged(cl) == authenticated'[cl] # authenticated[cl]
MatchesHash(cl) == password_hash = Hash(password_input[cl])

C24_FlagOnlyByMatch ==
    \A cl \in Clients :
        FlagChanged(cl) => authenticated'[cl] /\ shown[cl] = "login" /\ MatchesHash(cl)

\* C24 as stated: with authentication not disabled the chat page is shown only to a
\* client whose authenticated flag is true, and the flag changes only to true and only
\* by a login attempt whose password matches the configured password hash.
C24_FlagSetOnlyByMatchingPassword ==
    []ChatOnlyIfAuthenticated /\ [][C24_FlagOnlyByMatch]_vars

C24_FlagOnlyByMatchOrNoHash ==
    \A cl \in Clients :
        FlagChanged(cl) =>
            /\ authenticated'[cl] /\ shown[cl] = "login"
            /\ password_hash = NoHash \/ MatchesHash(cl)

\* C24: with authentication not disabled the chat page is shown only to a client
\* whose authenticated flag is true, every other client being sent to /login; the flag
\* changes only to true and only by a login attempt whose password matches the
\* configured hash, or by any login attempt when no password hash is configured; an
\* attempt that fails, a hash that bcrypt rejects included, leaves the flag unchanged.
C24_ChatNeedsLogin ==
    []ChatOnlyIfAuthenticated /\ [][C24_FlagOnlyByMatchOrNoHash]_vars

C24_Witness ==
    /\ ~disable_auth /\ password_hash = Hash("secret")
    /\ authenticated["alice"] /\ shown["alice"] = "chat"
    /\ ~authenticated["bob"] /\ shown["bob"] = "login" /\ password_input["bob"] = "guess"

=============================================================================
